---- MODULE Spec2Model ----
(***************************************************************************)
(* A model of the browser voice session engine (BrowserVoiceHandler) and   *)
(* of the tool execution service it calls.                                 *)
(*                                                                         *)
(* JavaScript runs one handler at a time: an async function runs without   *)
(* interruption from one await to the next.  Every action below is one     *)
(* such run: an event handler, a timer callback, or the continuation of an *)
(* async function after the await it was suspended at.                     *)
(***************************************************************************)
EXTENDS Integers, Sequences, FiniteSets, TLC

\* ------------------------------------------------------------------ bounds
\* Audio chunks the client sends over the whole run.
MaxChunks == 2
\* Utterances handed to transcription over the whole run.
MaxUtterances == 2
\* stop-speaking events the client sends.
MaxInterrupts == 1
\* Tool-call replies the language model gives in a dialog.
MaxToolCalls == 1
\* Tool-call replies the language model gives in the tool-call loop.
MaxToolReplies == 6
\* Audio chunks the client sends to the segmenter.
MaxAudioChunks == 3
\* Runs of the tool processing loops.
MaxToolRuns == 1
\* The length of the PCM inputs enumerated byte by byte.
MaxPcmLen == 4
\* Utterances of two clients connected at once, taken together.
MaxSharedUtterances == 1
\* Messages other than audio and stop-speaking a client may send.
MaxOtherMessages == 2

\* ------------------------------------------------------- program constants
SILENCE_THRESHOLD == 500
MinUtteranceBytes == 3200
HistoryLimit == 20

\* Connection identities (the keys of the sessions Map).
Conns == {1, 2}

Max(a, b) == IF a > b THEN a ELSE b

RECURSIVE SumSeq(_)
SumSeq(s) == IF s = <<>> THEN 0 ELSE Head(s) + SumSeq(Tail(s))

\* ------------------------------------------------------------------- tools
\* A tool of an agent: `webhookUrl` says whether it has a URL.
SheetTool ==
    [name |-> "sheet", type |-> "GoogleSheets", webhookUrl |-> TRUE, runAfterCall |-> FALSE]
HookTool ==
    [name |-> "hook", type |-> "Webhook", webhookUrl |-> TRUE, runAfterCall |-> TRUE]
MailTool ==
    [name |-> "mail", type |-> "Email", webhookUrl |-> TRUE, runAfterCall |-> FALSE]
BareHookTool ==
    [name |-> "barehook", type |-> "Webhook", webhookUrl |-> FALSE, runAfterCall |-> FALSE]

\* The tool lists an agent may be configured with.
ToolConfigs == {<<>>, <<SheetTool, HookTool>>, <<SheetTool, HookTool, MailTool, BareHookTool>>}

\* What the tool's endpoint does with a request: the HTTP status it answers
\* with, or 0 when the request fails in transport (the promise rejects).
ToolOutcomes == {0, 200, 204, 299, 300, 404, 500}

\* response.ok
ResponseOk(status) == status \in 200..299

\* What a try block evaluates to when its catch returns false.
CatchFalse(r) == IF r = "throw" THEN "false" ELSE r

\* executeGoogleSheetsTool: a missing URL throws, appendGenericRow rejects or
\* answers with result.success; the catch returns false.
executeGoogleSheetsTool(tool, data, status) ==
    CatchFalse(IF ~tool.webhookUrl \/ status = 0 THEN "throw"
               ELSE IF ResponseOk(status) THEN "true" ELSE "false")

\* executeWebhookTool returning true whenever fetch resolves.
executeWebhookToolAnyStatus(tool, data, status) ==
    CatchFalse(IF ~tool.webhookUrl \/ status = 0 THEN "throw" ELSE "true")

\* executeWebhookTool: a missing URL throws, fetch rejects or resolves with a
\* response; the catch returns false.
executeWebhookTool(tool, data, status) ==
    CatchFalse(IF ~tool.webhookUrl \/ status = 0 THEN "throw"
               ELSE IF ResponseOk(status) THEN "true" ELSE "false")

\* executeTool: Object.keys(data) throws for null data; the switch on the
\* tool's type; the catch returns false.
executeTool(tool, data, status) ==
    CatchFalse(IF data = "null" THEN "throw"
               ELSE IF tool.type = "GoogleSheets" THEN executeGoogleSheetsTool(tool, data, status)
               ELSE IF tool.type = "Webhook" THEN executeWebhookTool(tool, data, status)
               ELSE "false")

\* session.tools.find(t => true): a lookup that does not compare the name.
FindToolAnyName(tools, name) == tools

\* session.tools.find(t => t.name === name): the tools of that name, in order.
FindTool(tools, name) == SelectSeq(tools, LAMBDA t: t.name = name)

\* --------------------------------------------------------- data extraction
\* A parameter of a tool.
Param(name, required) == [name |-> name, required |-> required]

LeadParameters == <<Param("phone", TRUE), Param("email", TRUE), Param("note", FALSE)>>

\* A tool that collects a lead: its type, its HTTP method ("" when it has
\* none), when it runs, and the parameters to extract.
LeadTool(type, method, runAfterCall, parameters) ==
    [name |-> "lead", type |-> type, webhookUrl |-> TRUE, method |-> method,
     runAfterCall |-> runAfterCall, parameters |-> parameters]

\* The HTTP methods a webhook tool may be configured with.
Methods == {"", "POST", "GET", "PUT", "PATCH", "DELETE"}

\* The tool lists handed to processToolsDuringCall and processToolsAfterCall.
LeadToolConfigs ==
    {<<LeadTool("Webhook", m, FALSE, LeadParameters)>> : m \in Methods}
    \cup {<<LeadTool("Webhook", "POST", TRUE, LeadParameters)>>,
          <<LeadTool("GoogleSheets", "", FALSE, <<>>)>>,
          <<LeadTool("Webhook", "GET", TRUE, LeadParameters),
            LeadTool("GoogleSheets", "", FALSE, LeadParameters)>>}

\* The value of a key of the parsed object: "undefined" for a key it lacks.
JsValues == {"undefined", "null", "false", "zero", "empty", "text"}

\* !value
Falsy(value) == value \in {"undefined", "null", "false", "zero", "empty"}

\* {}
EmptyObject == [phone |-> "undefined", email |-> "undefined", note |-> "undefined"]

\* A reply of llmService.chat to the extraction prompt: it throws, or returns
\* text without braces, text whose braces JSON.parse rejects, or text holding
\* a JSON object.
ExtractReply(kind, data) == [kind |-> kind, data |-> data]

ExtractReplies ==
    {ExtractReply(k, EmptyObject) : k \in {"throw", "no-json", "bad-json"}}
    \cup {ExtractReply("json", [phone |-> p, email |-> e, note |-> n]) :
             p \in JsValues, e \in {"null", "zero", "text"}, n \in {"undefined", "text"}}

\* parameters.map(p => p.name)
NamesOf(parameters) == [i \in 1..Len(parameters) |-> parameters[i].name]

\* extractDataFromConversation: the object it returns, `keys` being the keys
\* the object has.  `context` says whether the session has a conversation to
\* map over; without one, or when the language model throws, the catch
\* returns the failure object.
extractDataFromConversation(context, tool, reply) ==
    IF ~context \/ reply.kind = "throw"
    THEN [keys |-> {"success", "data", "error"},
          success |-> FALSE, data |-> EmptyObject, missingFields |-> <<>>]
    ELSE LET extractedData == IF reply.kind = "json" THEN reply.data ELSE EmptyObject
             missingFields ==
                 NamesOf(SelectSeq(tool.parameters,
                                   LAMBDA p: p.required /\ Falsy(extractedData[p.name])))
         IN [keys |-> {"success", "data", "missingFields"},
             success |-> Len(missingFields) = 0,
             data |-> extractedData,
             missingFields |-> missingFields]

\* JSON.stringify(data)
JsonStringify(data) == <<"json", data>>

\* No request body.
NoBody == <<>>

\* The request executeWebhookTool hands to fetch.
WebhookRequest(tool, data) ==
    LET method == IF tool.method = "" THEN "POST" ELSE tool.method
    IN [method |-> method,
        body |-> IF method = "POST" THEN JsonStringify(data) ELSE NoBody]

\* tools.filter(tool => !tool.runAfterCall)
DuringCallTools(tools) == SelectSeq(tools, LAMBDA tool: ~tool.runAfterCall)

\* tools.filter(tool => tool.runAfterCall)
AfterCallTools(tools) == SelectSeq(tools, LAMBDA tool: tool.runAfterCall)

\* ------------------------------------------------------------------- audio
\* A chunk of PCM: `bytes` bytes whose 16-bit samples all have amplitude `amp`.
SpeechChunk == [bytes |-> 3200, amp |-> 501]
QuietChunk == [bytes |-> 3200, amp |-> 500]
ShortQuietChunk == [bytes |-> 1600, amp |-> 0]
EmptyChunk == [bytes |-> 0, amp |-> 0]
OddChunk == [bytes |-> 1601, amp |-> 501]
Chunks == {SpeechChunk, QuietChunk, ShortQuietChunk, EmptyChunk, OddChunk}

\* readInt16LE(i) for i = 0, 2, ... < length: the last read of an odd-length
\* buffer is out of range and throws.
ReadThrows(chunk) == chunk.bytes % 2 = 1

NumSamples(chunk) == chunk.bytes \div 2

SumSquares(chunk) == NumSamples(chunk) * chunk.amp * chunk.amp

\* rms > SILENCE_THRESHOLD, with rms = sqrt(sumSquares / numSamples); for an
\* empty chunk 0/0 is NaN and the comparison is false.
IsSpeech(chunk) ==
    /\ NumSamples(chunk) > 0
    /\ SumSquares(chunk) > SILENCE_THRESHOLD * SILENCE_THRESHOLD * NumSamples(chunk)

\* ------------------------------------------------------------ WAV container
\* The bytes of `n` bytes of 16-bit little-endian samples of value `sample`.
Pcm(n, sample) ==
    [i \in 1..n |-> IF i % 2 = 1 THEN sample % 256 ELSE (sample \div 256) % 256]

\* The PCM inputs: every byte string of up to MaxPcmLen bytes over a few byte
\* values, and longer ones whose lengths need two and three bytes to write.
PcmInputs ==
    UNION {[1..n -> {0, 1, 255}] : n \in 0..MaxPcmLen}
    \cup {Pcm(n, 501) : n \in {220, 3200}}

\* Buffer.alloc(n)
Alloc(n) == [i \in 1..n |-> 0]

\* The bytes of `bytes` written into `buffer` at `offset`, as far as they fit.
WriteBytes(buffer, bytes, offset) ==
    [i \in 1..Len(buffer) |->
        IF i > offset /\ i <= offset + Len(bytes) THEN bytes[i - offset] ELSE buffer[i]]

\* The four bytes of a 32-bit value, most significant first.
UInt32BE(value) ==
    <<(value \div 16777216) % 256, (value \div 65536) % 256, (value \div 256) % 256,
      value % 256>>

\* The four bytes writeUInt32LE writes.
UInt32LE(value) ==
    <<value % 256, (value \div 256) % 256, (value \div 65536) % 256,
      (value \div 16777216) % 256>>

\* The two bytes writeUInt16LE writes.
UInt16LE(value) == <<value % 256, (value \div 256) % 256>>

\* writeUInt32LE throws for a value that does not fit 32 bits.
FitsUInt32(value) == value >= 0 /\ value \div 65536 < 65536

\* The character codes of 'RIFF', 'WAVE', 'fmt ' and 'data'.
RIFF == <<82, 73, 70, 70>>
WAVE == <<87, 65, 86, 69>>
FMT == <<102, 109, 116, 32>>
DATA == <<100, 97, 116, 97>>

\* createWavHeader: whether it throws, and the buffer it returns.
createWavHeader(pcmData) ==
    LET numChannels == 1
        sampleRate == 16000
        bitsPerSample == 16
        byteRate == sampleRate * numChannels * (bitsPerSample \div 8)
        blockAlign == numChannels * (bitsPerSample \div 8)
        dataSize == Len(pcmData)
        b0 == Alloc(44 + dataSize)
        b1 == WriteBytes(b0, RIFF, 0)
        b2 == WriteBytes(b1, UInt32LE(36 + dataSize), 4)
        b3 == WriteBytes(b2, WAVE, 8)
        b4 == WriteBytes(b3, FMT, 12)
        b5 == WriteBytes(b4, UInt32LE(16), 16)
        b6 == WriteBytes(b5, UInt16LE(1), 20)
        b7 == WriteBytes(b6, UInt16LE(numChannels), 22)
        b8 == WriteBytes(b7, UInt32LE(sampleRate), 24)
        b9 == WriteBytes(b8, UInt32LE(byteRate), 28)
        b10 == WriteBytes(b9, UInt16LE(blockAlign), 32)
        b11 == WriteBytes(b10, UInt16LE(bitsPerSample), 34)
        b12 == WriteBytes(b11, DATA, 36)
        b13 == WriteBytes(b12, UInt32LE(dataSize), 40)
        b14 == WriteBytes(b13, pcmData, 44)
    IN IF FitsUInt32(36 + dataSize)
       THEN [threw |-> FALSE, buffer |-> b14]
       ELSE [threw |-> TRUE, buffer |-> <<>>]

\* ---------------------------------------------------------------- history
Turn(role, content) == [role |-> role, content |-> content]

Content(kind, tool, ref) == [kind |-> kind, tool |-> tool, ref |-> ref]

Greeting == Content("greeting", "", 0)
Transcript(t) == Content("transcript", "", t)
ToolStatus(name, t) == Content("tool-status:success", name, t)
Apology(t) == Content("apology", "", t)

LastN(s, n) == IF Len(s) > n THEN SubSeq(s, Len(s) - n + 1, Len(s)) ELSE s

\* appendToContext keeping the first 20 entries: slice(0, 20) for slice(-20).
appendToContextKeepsOldest(history, content, role) ==
    LET pushed == Append(history, Turn(role, content))
    IN IF Len(pushed) > HistoryLimit THEN SubSeq(pushed, 1, HistoryLimit) ELSE pushed

\* push, then keep the last 20 entries.
appendToContext(history, content, role) ==
    LET pushed == Append(history, Turn(role, content))
    IN IF Len(pushed) > HistoryLimit THEN LastN(pushed, HistoryLimit) ELSE pushed

\* ------------------------------------------------------------------- state
VARIABLES
    mysqlPool,  \* whether the handler was constructed with a database pool
    sessions,   \* the keys of the sessions Map
    session,    \* the session objects, by connection
    ws,         \* each connection's socket: its state and what was sent on it
    timers,     \* each connection's pending timers in the event loop
    tasks,      \* the runs of the async functions: processBufferedAudio, the greeting
                \* callback, the tool processing loops, createWavHeader calls
    calls,      \* each connection's logCallStart and endSession progress
    ghost,      \* what is remembered of the run, by connection
    env         \* what the client and the providers may still do

vars == <<mysqlPool, sessions, session, ws, timers, tasks, calls, ghost, env>>

\* The object createSession builds.
createSession(userId, tools, agentVoiceId) ==
    [created |-> TRUE,
     userId |-> userId,
     agentVoiceId |-> agentVoiceId,
     tools |-> tools,
     conversationHistory |-> <<>>,
     elevenLabsConnection |-> FALSE,
     isProcessing |-> FALSE,
     audioBuffer |-> <<>>,
     silenceTimer |-> 0,
     totalInputTokens |-> 0,
     totalOutputTokens |-> 0,
     callLogId |-> FALSE,
     isInterrupted |-> FALSE]

NoSession == [createSession(FALSE, <<>>, "default") EXCEPT !.created = FALSE]

NoSocket == [state |-> "none", sent |-> <<>>]

NoTimers == [silence |-> {}, greeting |-> FALSE, armed |-> 0, lateFired |-> FALSE]

\* What is remembered of a run: every turn ever appended to the history, and
\* the stop-speaking events handled.
NoGhost == [appended |-> <<>>, stops |-> 0]

\* What handleConnection holds across its awaits: the userId and the voice of
\* the request, and the tools of the agent once it is loaded.
NoRequest == [userId |-> FALSE, voiceId |-> "default", tools |-> <<>>]

NoCalls ==
    [connect |-> "none", request |-> NoRequest, balance |-> "none",
     logCallStart |-> "none", endSession |-> "idle", teardown |-> <<>>]

\* An event handed to ws.send, and whether the socket was open to carry it
\* (a socket is open from the connection event until it closes).
Event(name, c) == [event |-> name, open |-> ws[c].state # "closed"]

\* ------------------------------------------------------- transcription
\* What transcribe does: it throws, or returns undefined, the empty string,
\* white space only, or words with white space around them.
SttResults == {"throw", "null", "empty", "blank", "text"}

\* The characters of the returned string.
TranscriptText(result) ==
    CASE result = "text" -> <<" ", "h", "i", " ">>
      [] result = "blank" -> <<" ", " ">>
      [] OTHER -> <<>>

RECURSIVE TrimStart(_)
TrimStart(str) == IF str # <<>> /\ Head(str) = " " THEN TrimStart(Tail(str)) ELSE str

RECURSIVE TrimEnd(_)
TrimEnd(str) ==
    IF str # <<>> /\ str[Len(str)] = " " THEN TrimEnd(SubSeq(str, 1, Len(str) - 1)) ELSE str

\* String.prototype.trim
Trim(str) == TrimEnd(TrimStart(str))

\* if (transcript) without the trim.
SpokenUntrimmed(result) ==
    /\ result \notin {"throw", "null"}
    /\ TranscriptText(result) # <<>>

\* if (transcript && transcript.trim())
Spoken(result) ==
    /\ result \notin {"throw", "null"}
    /\ TranscriptText(result) # <<>>
    /\ Trim(TranscriptText(result)) # <<>>

\* The catch of processBufferedAudio sending nothing.
onTranscribeErrorSilent(s) == [session |-> s, sent |-> <<>>]

\* The catch of processBufferedAudio: the session after it and the events it
\* sends.
onTranscribeError(s) == [session |-> s, sent |-> <<"error">>]

\* ------------------------------------------------------------ synthesis
\* The voice ids a connection may ask for.
VoiceIds == {"default", "meera", "MEERA", "my-sarvam-voice"}

\* voiceId.toLowerCase()
LowerCase(voiceId) == IF voiceId = "MEERA" THEN "meera" ELSE voiceId

SarvamVoices ==
    {"meera", "ananya", "aditi", "vidya", "arvind", "abhilash", "aarav", "arya", "hitesh",
     "chitra"}

\* getVoiceProvider
getVoiceProvider(voiceId) ==
    IF voiceId \in {"my-sarvam-voice"} \/ LowerCase(voiceId) \in SarvamVoices
    THEN "sarvam"
    ELSE "elevenlabs"

\* What the synthesis provider does with a request: it answers 200 with
\* audio, answers 200 without audio, answers another status, or the request
\* fails in transport.
SynthOutcomes == {"ok", "no-audio", "status", "reject"}

\* synthesizeElevenLabsTTS: the events it sends, or <<"throw">>.
synthesizeElevenLabsTTS(outcome) ==
    IF outcome \in {"status", "reject"} THEN <<"throw">> ELSE <<"audio">>

\* synthesizeSarvamTTS: the events it sends, or <<"throw">>.
synthesizeSarvamTTS(outcome) ==
    IF outcome = "ok" THEN <<"audio">> ELSE <<"throw">>

\* synthesizeAndStreamTTS: the events it sends.
synthesizeAndStreamTTS(s, outcome) ==
    LET sent == IF getVoiceProvider(s.agentVoiceId) = "elevenlabs"
                THEN synthesizeElevenLabsTTS(outcome)
                ELSE synthesizeSarvamTTS(outcome)
    IN IF sent = <<"throw">> THEN <<"error">> ELSE sent

\* ------------------------------------------------------- language model
\* A reply of generateContent: it throws, or returns text.  After the code
\* fences are stripped and the text trimmed, `braces` says it starts with {
\* and ends with }, `parses` that JSON.parse accepts it, `tool` is the parsed
\* object's tool name ("" when falsy) and `data` whether its data is truthy.
Reply(kind, braces, parses, tool, data) ==
    [kind |-> kind, braces |-> braces, parses |-> parses, tool |-> tool, data |-> data]

Throws == Reply("throw", FALSE, FALSE, "", FALSE)
PlainText == Reply("text", FALSE, FALSE, "", FALSE)
EmptyText == Reply("empty", FALSE, FALSE, "", FALSE)
BadJson == Reply("bad-json", TRUE, FALSE, "", FALSE)
NoDataJson == Reply("json", TRUE, TRUE, "sheet", FALSE)
ToolJson(name) == Reply("tool-json", TRUE, TRUE, name, TRUE)

EngineReplies == {Throws, PlainText, ToolJson("sheet")}
ToolReplies == {ToolJson("sheet"), ToolJson("hook"), ToolJson("mail"), ToolJson("barehook")}
DialogReplies ==
    {Throws, PlainText, EmptyText, BadJson, NoDataJson,
     ToolJson("sheet"), ToolJson("hook"), ToolJson("ghost")}

\* The reply's text as it is returned, appended and sent.
ReplyText(reply, t) == Content(reply.kind, reply.tool, t)

NoContent == Content("", "", 0)

\* if (response): the empty string and undefined are falsy.
Truthy(content) == content.kind \notin {"", "empty"}

\* The token counts of a reply: response.inputTokens and
\* response.outputTokens, 0 when the reply has none.
Usage(input, output) == [input |-> input, output |-> output]

Usages == {Usage(0, 0), Usage(7, 3)}

\* callLLM's update of the session's token counters; a call that throws
\* does not reach it.
countTokens(s, reply, tokens) ==
    IF reply.kind = "throw"
    THEN s
    ELSE [s EXCEPT !.totalInputTokens = @ + tokens.input,
                   !.totalOutputTokens = @ + tokens.output]

\* callLLM looking only for tools that run during the call.
ToolToRunInlineOnly(s, reply, pool) ==
    IF reply.braces /\ reply.parses /\ reply.tool # "" /\ reply.data /\ pool
    THEN SelectSeq(s.tools, LAMBDA t: t.name = reply.tool /\ ~t.runAfterCall)
    ELSE <<>>

\* The tool callLLM executes for a reply: the parsed object has a tool and
\* data, the handler has a database pool, and the session lists the tool.
\* <<>> when it executes none.
ToolToRun(s, reply, pool) ==
    IF /\ reply.braces
       /\ reply.parses
       /\ reply.tool # "" /\ reply.data
       /\ pool
    THEN FindTool(s.tools, reply.tool)
    ELSE <<>>

\* ------------------------------------------------------------- handlers
\* handleIncomingAudio with `handle` the timer setTimeout would return:
\* the session after it, the timers it cleared and the timers it armed.
handleIncomingAudio(s, chunk, handle) ==
    LET pushed == [s EXCEPT !.audioBuffer = Append(@, chunk)]
    IN IF ReadThrows(chunk)
       THEN [session |-> pushed, clear |-> {}, arm |-> {}]
       ELSE IF IsSpeech(chunk)
       THEN [session |-> [pushed EXCEPT !.silenceTimer = 0],
             clear |-> {s.silenceTimer} \ {0},
             arm |-> {}]
       ELSE IF pushed.silenceTimer = 0 /\ Len(pushed.audioBuffer) > 0
       THEN [session |-> [pushed EXCEPT !.silenceTimer = handle],
             clear |-> {},
             arm |-> {handle}]
       ELSE [session |-> pushed, clear |-> {}, arm |-> {}]

\* Buffer.concat(audioBuffer).length
ConcatLength(buffer) == SumSeq([i \in 1..Len(buffer) |-> buffer[i].bytes])

\* processBufferedAudio clearing isInterrupted when it takes an utterance.
processBufferedAudioResumes(s) ==
    IF Len(s.audioBuffer) = 0
    THEN [session |-> s, boundary |-> FALSE, chunks |-> <<>>, dispatch |-> FALSE]
    ELSE [session |-> [s EXCEPT !.silenceTimer = 0, !.audioBuffer = <<>>,
                                !.isInterrupted = FALSE],
          boundary |-> TRUE,
          chunks |-> s.audioBuffer,
          dispatch |-> ~(ConcatLength(s.audioBuffer) < MinUtteranceBytes)]

\* processBufferedAudio without its test of the buffer's length.
processBufferedAudioNoFloor(s) ==
    IF Len(s.audioBuffer) = 0
    THEN [session |-> s, boundary |-> FALSE, chunks |-> <<>>, dispatch |-> FALSE]
    ELSE [session |-> [s EXCEPT !.silenceTimer = 0, !.audioBuffer = <<>>],
          boundary |-> TRUE,
          chunks |-> s.audioBuffer,
          dispatch |-> TRUE]

\* processBufferedAudio up to its first await: the session after it, whether
\* it got past the empty-buffer return (an utterance boundary), the chunks it
\* took, and whether it goes on to transcription.
processBufferedAudio(s) ==
    IF Len(s.audioBuffer) = 0
    THEN [session |-> s, boundary |-> FALSE, chunks |-> <<>>, dispatch |-> FALSE]
    ELSE [session |-> [s EXCEPT !.silenceTimer = 0, !.audioBuffer = <<>>],
          boundary |-> TRUE,
          chunks |-> s.audioBuffer,
          dispatch |-> ~(ConcatLength(s.audioBuffer) < MinUtteranceBytes)]

\* processUserInput without its early return.
AcceptsWhileBusy(s) == TRUE

\* The gate of processUserInput: whether the input is taken.
Accepts(s) == ~s.isProcessing

\* handleInterruption without its reset of isProcessing.
handleInterruptionKeepsBusy(s) ==
    [session |-> [s EXCEPT !.isInterrupted = TRUE], sent |-> <<"stop-audio">>]

\* handleInterruption: the session after it and the events it sends.
handleInterruption(s) ==
    [session |-> [s EXCEPT !.isInterrupted = TRUE, !.isProcessing = FALSE],
     sent |-> <<"stop-audio">>]

\* endSession without its clearTimeout.
endSessionClearsNothing(s) == {}

\* endSession up to the await of logCallEnd: the timers it clears.
endSessionClears(s) == {s.silenceTimer} \ {0}

\* handleConnection loading the agent: agentId && userId && this.mysqlPool.
LoadsAgent(agentId, userId, pool) == agentId /\ userId /\ pool

\* handleConnection checking the balance: userId && this.walletService; the
\* constructor builds the wallet service when it is given a database pool.
ChecksBalance(userId, pool) == userId /\ pool

\* An agent record without a voiceId.
NoVoice == ""

\* handleConnection's voice after the agent is loaded:
\* if (agent.voiceId) agentVoiceId = agent.voiceId.
AgentVoice(voiceId, agentVoiceId) == IF agentVoiceId # NoVoice THEN agentVoiceId ELSE voiceId

\* handleConnection going on whatever the balance pre-check reports.
RefusesNever(balance) == FALSE

\* handleConnection's balance pre-check: !balanceCheck.allowed.  A check that
\* throws is logged and the connection goes on.
Refuses(balance) == balance = "refused"

\* logCallEnd's early return: no database pool or no call-log id.
SkipsCallEnd(s, pool) == ~pool \/ ~s.callLogId

\* logCallStart's early return.
SkipsCallStart(s, pool) == ~pool \/ ~s.userId

\* ---------------------------------------------------------------- tasks
\* A run of processBufferedAudio (kind "utterance") or of the greeting
\* callback (kind "greeting"): where it is (pc), the chunks it took, what the
\* transcription did (stt) and the synthesis provider did (synth), whether
\* isProcessing was set when it called processUserInput (input) and whether
\* it got past the gate (gate), the generateContent calls it made and their
\* replies, the request of the last one (contents), the executeTool results,
\* the text callLLM returned (response), the events it sent, and whether a
\* stop-speaking event came while its turn was in flight (stale).
Task(c, kind, pc, chunks) ==
    [conn |-> c, kind |-> kind, pc |-> pc, chunks |-> chunks,
     stt |-> "none", input |-> "none", gate |-> "none", llmCalls |-> 0, replies |-> <<>>,
     contents |-> <<>>, tool |-> "", toolResults |-> <<>>,
     response |-> NoContent, synth |-> "none", sent |-> <<>>, stale |-> FALSE,
     sentStale |-> <<>>]

TaskIds == DOMAIN tasks

\* A run of processUserInput between isProcessing = true and its finally.
InFlight(t) == tasks[t].kind = "utterance" /\ tasks[t].pc \in {"llm", "tool", "tts"}

InFlightOf(c) == {t \in TaskIds : tasks[t].conn = c /\ InFlight(t)}

\* The events sent outside any task (stop-audio, the balance refusal).
Sent(c, names) ==
    [ws EXCEPT ![c].sent = @ \o [i \in 1..Len(names) |-> Event(names[i], c)]]

\* The events a task has sent, in order.
EventsOf(t) == [i \in 1..Len(tasks[t].sent) |-> tasks[t].sent[i].event]

Has(seq, x) == \E i \in 1..Len(seq) : seq[i] = x

Count(seq, x) == Cardinality({i \in 1..Len(seq) : seq[i] = x})

Appended(c, turns) == [ghost EXCEPT ![c].appended = @ \o turns]

\* ----------------------------------------------------------------- init
\* The environment of a run: the handler's configuration, what the agents
\* are configured with, what the providers answer, and how many events the
\* client and the language model may still produce.
Env(pool, users, toolConfigs, balances, chunkKinds, transcriptions, replies, syntheses, toolOutcomes, chunks, utterances, interrupts, toolCalls) ==
    [pool |-> pool, users |-> users, toolConfigs |-> toolConfigs,
     balances |-> balances, chunkKinds |-> chunkKinds,
     transcriptions |-> transcriptions, replies |-> replies,
     syntheses |-> syntheses, toolOutcomes |-> toolOutcomes,
     agents |-> {toolConfigs # {<<>>}}, agentVoices |-> {NoVoice, "meera"},
     others |-> 0, voices |-> {"default"}, tokens |-> {Usage(7, 3)}, conns |-> 1, chunks |-> chunks, utterances |-> utterances,
     interrupts |-> interrupts, toolCalls |-> toolCalls]

InitWith(e) ==
    /\ mysqlPool = e.pool
    /\ sessions = {}
    /\ session = [c \in Conns |-> NoSession]
    /\ ws = [c \in Conns |-> NoSocket]
    /\ timers = [c \in Conns |-> NoTimers]
    /\ tasks = <<>>
    /\ calls = [c \in Conns |-> NoCalls]
    /\ ghost = [c \in Conns |-> NoGhost]
    /\ env = e

\* The turn engine: a handler without a database pool (no call log, no
\* tools), a client that sends speech and silence, may interrupt, and stays
\* connected.
EngineEnv ==
    Env(FALSE, {FALSE}, {<<>>}, {"unchecked"}, {SpeechChunk, QuietChunk},
        {"text"}, {PlainText}, {"ok"}, {200},
        MaxChunks, MaxUtterances, MaxInterrupts, 0)

Init == InitWith(EngineEnv)

\* The message handler and the segmenter: every kind of chunk, pings and
\* messages that do not parse; the transcription finds nothing said, so no
\* turn follows.
AudioEnv ==
    [Env(FALSE, {FALSE}, {<<>>}, {"unchecked"}, Chunks,
         {"blank"}, {PlainText}, {"ok"}, {200},
         MaxAudioChunks, MaxAudioChunks, 0, 0) EXCEPT !.others = MaxOtherMessages]

InitAudio == InitWith(AudioEnv)

\* Teardown: a handler with a database pool and a known user, with or without
\* an agent, so that the balance is checked and the call is logged and
\* charged; one utterance, and the client disconnects.
TeardownEnv ==
    [Env(TRUE, {TRUE}, {<<>>}, {"allowed", "refused", "error"}, {SpeechChunk, QuietChunk},
         {"text"}, {PlainText}, {"ok"}, {200},
         MaxChunks, 1, 0, 0) EXCEPT !.agents = BOOLEAN]

InitTeardown == InitWith(TeardownEnv)

\* The dialog: an agent with tools, one utterance, every kind of reply and
\* tool outcome.
DialogEnv ==
    Env(TRUE, {TRUE}, {<<SheetTool, HookTool>>}, {"allowed"}, {QuietChunk},
        {"text"}, DialogReplies, {"ok"}, {200, 500},
        1, 1, 0, MaxToolCalls)

InitDialog == InitWith(DialogEnv)

\* The tool-call loop: a language model that keeps answering with a tool call.
LoopEnv ==
    Env(TRUE, {TRUE}, {<<SheetTool, HookTool>>}, {"allowed"}, {QuietChunk},
        {"text"}, {PlainText, ToolJson("sheet")}, {"ok"}, {200},
        1, 1, 0, MaxToolReplies)

InitLoop == InitWith(LoopEnv)

\* Tool execution: an agent with a tool of every kind, a language model that
\* asks for them, and endpoints that answer with every outcome.
ToolsEnv ==
    [DialogEnv EXCEPT !.toolConfigs = {<<SheetTool, HookTool, MailTool, BareHookTool>>},
                      !.replies = {PlainText} \cup ToolReplies,
                      !.toolOutcomes = ToolOutcomes,
                      !.toolCalls = MaxToolCalls]

InitTools == InitWith(ToolsEnv)

\* Speech in and out: every outcome of the transcription and of the
\* synthesis, with a voice of either provider.
SpeechEnv ==
    [EngineEnv EXCEPT !.chunkKinds = {QuietChunk},
                      !.transcriptions = SttResults,
                      !.syntheses = {"ok", "no-audio", "status"},
                      !.voices = {"default", "meera"},
                      !.interrupts = 0]

InitSpeech == InitWith(SpeechEnv)

\* Two sessions at once: two clients that send silence-bounded utterances,
\* may interrupt and may disconnect, and a language model that counts tokens.
TwoEnv ==
    [EngineEnv EXCEPT !.conns = 2,
                      !.chunkKinds = {QuietChunk},
                      !.chunks = MaxSharedUtterances,
                      !.utterances = MaxSharedUtterances,
                      !.interrupts = 1]

InitTwo == InitWith(TwoEnv)

\* A session that has been talking for a while: its greeting long sent, its
\* call logged, `n` turns in its history.
PastTurn(i) ==
    IF i = 1 THEN Turn("assistant", Greeting)
    ELSE IF i % 2 = 0 THEN Turn("user", Transcript(0 - i))
    ELSE Turn("assistant", Content("text", "", 0 - i))

PastTurns(n) == [i \in 1..n |-> PastTurn(i)]

InitHistory ==
    \E n \in 1..HistoryLimit :
        /\ mysqlPool = TRUE
        /\ sessions = {1}
        /\ session = [c \in Conns |->
                         IF c = 1
                         THEN [createSession(TRUE, <<SheetTool, HookTool>>, "default") EXCEPT
                                  !.conversationHistory = PastTurns(n),
                                  !.callLogId = TRUE]
                         ELSE NoSession]
        /\ ws = [c \in Conns |-> IF c = 1 THEN [NoSocket EXCEPT !.state = "open"] ELSE NoSocket]
        /\ timers = [c \in Conns |-> NoTimers]
        /\ tasks = <<>>
        /\ calls = [c \in Conns |-> IF c = 1
                       THEN [NoCalls EXCEPT !.connect = "done", !.balance = "allowed",
                                            !.logCallStart = "ok"]
                       ELSE NoCalls]
        /\ ghost = [c \in Conns |->
                       IF c = 1 THEN [NoGhost EXCEPT !.appended = PastTurns(n)] ELSE NoGhost]
        /\ env = [DialogEnv EXCEPT !.conns = 0, !.chunks = MaxUtterances,
                                   !.utterances = MaxUtterances,
                                   !.replies = {PlainText, ToolJson("sheet")},
                                   !.toolOutcomes = {200}]

\* -------------------------------------------------------------- actions
\* handleConnection from createSession to its end: the session, the greeting
\* timer, the socket's listeners, and logCallStart up to its await.  A socket
\* that closed while handleConnection was waiting stays closed.
StartSession(c, userId, tools, balance, voiceId) ==
    /\ ws' = [ws EXCEPT ![c].state = IF @ = "none" THEN "open" ELSE @]
    /\ session' = [session EXCEPT ![c] = createSession(userId, tools, voiceId)]
    /\ sessions' = sessions \cup {c}
    /\ timers' = [timers EXCEPT ![c].greeting = TRUE]
    /\ calls' = [calls EXCEPT ![c].connect = "done",
                              ![c].request = NoRequest,
                              ![c].balance = balance,
                              ![c].logCallStart =
                    IF SkipsCallStart(createSession(userId, tools, voiceId), mysqlPool)
                    THEN "skipped" ELSE "pending"]

\* handleConnection from the connection event to its first await: of
\* getAgentById, of checkBalanceForCall, or to its end when it awaits neither.
Connect(c, userId, agentId, voiceId) ==
    /\ ws[c].state = "none"
    /\ calls[c].connect = "none"
    /\ \A d \in Conns : d < c => calls[d].connect # "none"
    /\ env.conns > 0
    /\ userId \in env.users
    /\ agentId \in env.agents
    /\ voiceId \in env.voices
    /\ env' = [env EXCEPT !.conns = @ - 1]
    /\ LET request == [userId |-> userId, voiceId |-> voiceId, tools |-> <<>>]
       IN IF LoadsAgent(agentId, userId, mysqlPool)
          THEN /\ calls' = [calls EXCEPT ![c].connect = "agent", ![c].request = request]
               /\ UNCHANGED <<sessions, session, ws, timers>>
          ELSE IF ChecksBalance(userId, mysqlPool)
          THEN /\ calls' = [calls EXCEPT ![c].connect = "balance", ![c].request = request]
               /\ UNCHANGED <<sessions, session, ws, timers>>
          ELSE StartSession(c, userId, <<>>, "unchecked", voiceId)
    /\ UNCHANGED <<mysqlPool, tasks, ghost>>

\* handleConnection after getAgentById: the agent's tools are kept, its voice
\* replaces the request's when it has one, and the balance is checked next
\* (an agent is loaded only for a userId on a handler with a database pool).
AgentDone(c, tools, agentVoiceId) ==
    /\ calls[c].connect = "agent"
    /\ tools \in env.toolConfigs
    /\ agentVoiceId \in env.agentVoices
    /\ calls' = [calls EXCEPT ![c].connect = "balance",
                              ![c].request.tools = tools,
                              ![c].request.voiceId = AgentVoice(@, agentVoiceId)]
    /\ UNCHANGED <<mysqlPool, sessions, session, ws, timers, tasks, ghost, env>>

\* handleConnection after checkBalanceForCall: the refusal, or the session.
BalanceDone(c, balance) ==
    /\ calls[c].connect = "balance"
    /\ balance \in env.balances \cap {"allowed", "refused", "error"}
    /\ LET request == calls[c].request
       IN IF Refuses(balance)
          THEN /\ ws' = [ws EXCEPT ![c] = [state |-> "closed",
                                           sent |-> Append(@.sent, Event("error", c))]]
               /\ calls' = [calls EXCEPT ![c].connect = "done",
                                         ![c].request = NoRequest,
                                         ![c].balance = balance]
               /\ UNCHANGED <<sessions, session, timers>>
          ELSE StartSession(c, request.userId, request.tools, balance, request.voiceId)
    /\ UNCHANGED <<mysqlPool, tasks, ghost, env>>

\* The socket's close event while handleConnection is waiting: no listener is
\* registered yet, so nothing runs.
CloseUnheard(c) ==
    /\ calls[c].connect \in {"agent", "balance"}
    /\ ws[c].state = "none"
    /\ ws' = [ws EXCEPT ![c].state = "closed"]
    /\ UNCHANGED <<mysqlPool, sessions, session, timers, tasks, calls, ghost, env>>

\* logCallStart after its INSERT: the call-log id is set when it succeeded.
LogStartDone(c, ok) ==
    /\ calls[c].logCallStart = "pending"
    /\ calls' = [calls EXCEPT ![c].logCallStart = IF ok THEN "ok" ELSE "failed"]
    /\ session' = [session EXCEPT ![c].callLogId = IF ok THEN TRUE ELSE @]
    /\ UNCHANGED <<mysqlPool, sessions, ws, timers, tasks, ghost, env>>

\* The 500 ms callback of sendInitialGreeting, up to the await of the synthesis.
GreetingFire(c) ==
    /\ timers[c].greeting
    /\ timers' = [timers EXCEPT ![c].greeting = FALSE]
    /\ tasks' = Append(tasks, [Task(c, "greeting", "tts", <<>>) EXCEPT
                                  !.sent = <<Event("agent-response", c)>>])
    /\ session' = [session EXCEPT ![c].conversationHistory =
                      appendToContext(@, Greeting, "assistant")]
    /\ ghost' = Appended(c, <<Turn("assistant", Greeting)>>)
    /\ UNCHANGED <<mysqlPool, sessions, ws, calls, env>>

\* An audio message: handleIncomingAudio.
Audio(c, chunk) ==
    /\ ws[c].state = "open"
    /\ env.chunks > 0
    /\ env.utterances > 0
    /\ chunk \in env.chunkKinds
    /\ LET r == handleIncomingAudio(session[c], chunk, timers[c].armed + 1)
       IN /\ session' = [session EXCEPT ![c] = r.session]
          /\ timers' = [timers EXCEPT ![c].silence = (@ \ r.clear) \cup r.arm,
                                      ![c].armed = @ + Cardinality(r.arm)]
    /\ env' = [env EXCEPT !.chunks = @ - 1]
    /\ UNCHANGED <<mysqlPool, sessions, ws, tasks, calls, ghost>>

\* The silence timer's callback: processBufferedAudio up to the await of the
\* transcription, or to its return for an empty or too short buffer.  The
\* timer runs 1500 ms from an audio message, which comes after the connection
\* is set up, so the 500 ms greeting timer of the connection has fired first.
SilenceTimerFire(c, h) ==
    /\ h \in timers[c].silence
    /\ ~timers[c].greeting
    /\ LET r == processBufferedAudio(session[c])
       IN /\ session' = [session EXCEPT ![c] = r.session]
          /\ tasks' = IF r.boundary
                      THEN Append(tasks, Task(c, "utterance",
                                              IF r.dispatch THEN "stt" ELSE "discarded",
                                              r.chunks))
                      ELSE tasks
          /\ env' = [env EXCEPT !.utterances = IF r.dispatch THEN Max(0, @ - 1) ELSE @]
    /\ timers' = [timers EXCEPT ![c].silence = @ \ {h},
                                ![c].lateFired = @ \/ calls[c].endSession # "idle"]
    /\ UNCHANGED <<mysqlPool, sessions, ws, calls, ghost>>

\* processBufferedAudio testing isProcessing before it sends the transcript
\* and appends the user turn: an utterance found busy leaves no trace.
SttDoneGateFirst(t, result) ==
    /\ t \in TaskIds
    /\ tasks[t].pc = "stt"
    /\ result \in env.transcriptions
    /\ LET c == tasks[t].conn
           s == session[c]
           history == appendToContext(s.conversationHistory, Transcript(t), "user")
           failed == onTranscribeError(s)
       IN CASE result = "throw" ->
                 /\ tasks' = [tasks EXCEPT ![t].pc = "done",
                                           ![t].stt = result,
                                           ![t].sent = @ \o [i \in 1..Len(failed.sent) |->
                                                                Event(failed.sent[i], c)]]
                 /\ session' = [session EXCEPT ![c] = failed.session]
                 /\ UNCHANGED ghost
            [] result # "throw" /\ ~Spoken(result) ->
                 /\ tasks' = [tasks EXCEPT ![t].pc = "done", ![t].stt = result]
                 /\ UNCHANGED <<session, ghost>>
            [] result # "throw" /\ Spoken(result) ->
                 /\ ghost' = IF Accepts(s) THEN Appended(c, <<Turn("user", Transcript(t))>>)
                             ELSE ghost
                 /\ IF Accepts(s)
                    THEN /\ session' = [session EXCEPT ![c].conversationHistory = history,
                                                       ![c].isProcessing = TRUE]
                         /\ tasks' = [tasks EXCEPT ![t].pc = "llm",
                                                   ![t].stt = result,
                                                   ![t].sent = Append(@, Event("transcript", c)),
                                                   ![t].input = IF s.isProcessing THEN "busy" ELSE "idle",
                                                   ![t].gate = "accepted",
                                                   ![t].llmCalls = 1,
                                                   ![t].contents = history]
                    ELSE /\ UNCHANGED session
                         /\ tasks' = [tasks EXCEPT ![t].pc = "done",
                                                   ![t].stt = result,
                                                   ![t].input = IF s.isProcessing THEN "busy" ELSE "idle",
                                                   ![t].gate = "dropped"]
    /\ UNCHANGED <<mysqlPool, sessions, ws, timers, calls, env>>

\* processBufferedAudio after the transcription: the transcript event, the
\* user turn, and processUserInput up to the await in callLLM.
SttDone(t, result) ==
    /\ t \in TaskIds
    /\ tasks[t].pc = "stt"
    /\ result \in env.transcriptions
    /\ LET c == tasks[t].conn
           s == session[c]
           history == appendToContext(s.conversationHistory, Transcript(t), "user")
           failed == onTranscribeError(s)
       IN CASE result = "throw" ->
                 /\ tasks' = [tasks EXCEPT ![t].pc = "done",
                                           ![t].stt = result,
                                           ![t].sent = @ \o [i \in 1..Len(failed.sent) |->
                                                                Event(failed.sent[i], c)]]
                 /\ session' = [session EXCEPT ![c] = failed.session]
                 /\ UNCHANGED ghost
            [] result # "throw" /\ ~Spoken(result) ->
                 /\ tasks' = [tasks EXCEPT ![t].pc = "done", ![t].stt = result]
                 /\ UNCHANGED <<session, ghost>>
            [] result # "throw" /\ Spoken(result) ->
                 /\ ghost' = Appended(c, <<Turn("user", Transcript(t))>>)
                 /\ IF Accepts(s)
                    THEN /\ session' = [session EXCEPT ![c].conversationHistory = history,
                                                       ![c].isProcessing = TRUE]
                         /\ tasks' = [tasks EXCEPT ![t].pc = "llm",
                                                   ![t].stt = result,
                                                   ![t].sent = Append(@, Event("transcript", c)),
                                                   ![t].input = IF s.isProcessing THEN "busy" ELSE "idle",
                                                   ![t].gate = "accepted",
                                                   ![t].llmCalls = 1,
                                                   ![t].contents = history]
                    ELSE /\ session' = [session EXCEPT ![c].conversationHistory = history]
                         /\ tasks' = [tasks EXCEPT ![t].pc = "done",
                                                   ![t].stt = result,
                                                   ![t].sent = Append(@, Event("transcript", c)),
                                                   ![t].input = IF s.isProcessing THEN "busy" ELSE "idle",
                                                   ![t].gate = "dropped"]
    /\ UNCHANGED <<mysqlPool, sessions, ws, timers, calls, env>>

\* callLLM after generateContent: a tool call goes to the await of executeTool;
\* any other reply, or the apology, is returned to processUserInput, which
\* appends it, sends it and goes to the await of the synthesis.
LlmDone(t, reply, tokens) ==
    /\ t \in TaskIds
    /\ tasks[t].pc = "llm"
    /\ reply \in env.replies
    /\ tokens \in env.tokens
    /\ LET c == tasks[t].conn
           s == countTokens(session[c], reply, tokens)
           run == IF reply.kind = "throw" THEN <<>> ELSE ToolToRun(s, reply, mysqlPool)
           response == IF reply.kind = "throw" THEN Apology(t) ELSE ReplyText(reply, t)
       IN IF run # <<>>
          THEN /\ env.toolCalls > 0
               /\ env' = [env EXCEPT !.toolCalls = @ - 1]
               /\ tasks' = [tasks EXCEPT ![t].pc = "tool",
                                         ![t].replies = Append(@, reply),
                                         ![t].tool = run[1].name]
               /\ session' = [session EXCEPT ![c] = s]
               /\ UNCHANGED ghost
          ELSE IF Truthy(response)
          THEN /\ session' = [session EXCEPT ![c] =
                                 [s EXCEPT !.conversationHistory =
                                     appendToContext(@, response, "assistant")]]
               /\ ghost' = Appended(c, <<Turn("assistant", response)>>)
               /\ tasks' = [tasks EXCEPT ![t].pc = "tts",
                                         ![t].replies = Append(@, reply),
                                         ![t].response = response,
                                         ![t].sent = Append(@, Event("agent-response", c)),
                                         ![t].sentStale = IF tasks[t].stale
                                                          THEN Append(@, "agent-response")
                                                          ELSE @]
               /\ UNCHANGED env
          ELSE /\ session' = [session EXCEPT ![c] = [s EXCEPT !.isProcessing = FALSE]]
               /\ tasks' = [tasks EXCEPT ![t].pc = "done",
                                         ![t].replies = Append(@, reply),
                                         ![t].response = response]
               /\ UNCHANGED <<ghost, env>>
    /\ UNCHANGED <<mysqlPool, sessions, ws, timers, calls>>

\* callLLM telling the client of the tool's execution before it recurses.
ToolDoneAnnounces(t, outcome) ==
    /\ t \in TaskIds
    /\ tasks[t].pc = "tool"
    /\ outcome \in env.toolOutcomes
    /\ LET c == tasks[t].conn
           tool == FindTool(session[c].tools, tasks[t].tool)[1]
           ran == [tool |-> tool, data |-> "object", status |-> outcome,
                   result |-> executeTool(tool, "object", outcome)]
           status == ToolStatus(tasks[t].tool, t)
           history == appendToContext(session[c].conversationHistory, status, "user")
       IN /\ session' = [session EXCEPT ![c].conversationHistory = history]
          /\ ghost' = Appended(c, <<Turn("user", status)>>)
          /\ tasks' = [tasks EXCEPT ![t].pc = "llm",
                                    ![t].llmCalls = @ + 1,
                                    ![t].toolResults = Append(@, ran),
                                    ![t].sent = Append(@, Event("agent-response", c)),
                                    ![t].contents = history]
    /\ UNCHANGED <<mysqlPool, sessions, ws, timers, calls, env>>

\* callLLM after executeTool: the tool-status turn, then the recursive callLLM
\* up to its await.  executeTool's result is not looked at.
ToolDone(t, outcome) ==
    /\ t \in TaskIds
    /\ tasks[t].pc = "tool"
    /\ outcome \in env.toolOutcomes
    /\ LET c == tasks[t].conn
           tool == FindTool(session[c].tools, tasks[t].tool)[1]
           ran == [tool |-> tool, data |-> "object", status |-> outcome,
                   result |-> executeTool(tool, "object", outcome)]
           status == ToolStatus(tasks[t].tool, t)
           history == appendToContext(session[c].conversationHistory, status, "user")
       IN /\ session' = [session EXCEPT ![c].conversationHistory = history]
          /\ ghost' = Appended(c, <<Turn("user", status)>>)
          /\ tasks' = [tasks EXCEPT ![t].pc = "llm",
                                    ![t].llmCalls = @ + 1,
                                    ![t].toolResults = Append(@, ran),
                                    ![t].contents = history]
    /\ UNCHANGED <<mysqlPool, sessions, ws, timers, calls, env>>

\* synthesizeAndStreamTTS after the provider's answer: the audio event or the
\* error event; for a turn, processUserInput's finally.
TtsDone(t, outcome) ==
    /\ t \in TaskIds
    /\ tasks[t].pc = "tts"
    /\ outcome \in env.syntheses
    /\ LET c == tasks[t].conn
           events == synthesizeAndStreamTTS(session[c], outcome)
       IN /\ tasks' = [tasks EXCEPT ![t].pc = "done",
                                    ![t].synth = outcome,
                                    ![t].sent = @ \o [i \in 1..Len(events) |->
                                                         Event(events[i], c)],
                                    ![t].sentStale = IF tasks[t].stale
                                                     THEN @ \o events
                                                     ELSE @]
          /\ session' = [session EXCEPT ![c].isProcessing =
                            IF tasks[t].kind = "utterance" THEN FALSE ELSE @]
    /\ UNCHANGED <<mysqlPool, sessions, ws, timers, calls, ghost, env>>

\* handleInterruption acting on every session of the registry.
StopSpeakingEverySession(c) ==
    /\ ws[c].state = "open"
    /\ env.interrupts > 0
    /\ env' = [env EXCEPT !.interrupts = @ - 1]
    /\ session' = [d \in Conns |->
                      IF d \in sessions THEN handleInterruption(session[d]).session
                      ELSE session[d]]
    /\ ws' = Sent(c, handleInterruption(session[c]).sent)
    /\ tasks' = [t \in TaskIds |->
                    IF t \in InFlightOf(c) THEN [tasks[t] EXCEPT !.stale = TRUE] ELSE tasks[t]]
    /\ ghost' = [ghost EXCEPT ![c].stops = @ + 1]
    /\ UNCHANGED <<mysqlPool, sessions, timers, calls>>

\* A stop-speaking message: handleInterruption.
StopSpeaking(c) ==
    /\ ws[c].state = "open"
    /\ env.interrupts > 0
    /\ env' = [env EXCEPT !.interrupts = @ - 1]
    /\ LET r == handleInterruption(session[c])
       IN /\ session' = [session EXCEPT ![c] = r.session]
          /\ ws' = Sent(c, r.sent)
    /\ tasks' = [t \in TaskIds |->
                    IF t \in InFlightOf(c) THEN [tasks[t] EXCEPT !.stale = TRUE] ELSE tasks[t]]
    /\ ghost' = [ghost EXCEPT ![c].stops = @ + 1]
    /\ UNCHANGED <<mysqlPool, sessions, timers, calls>>

\* A ping message: the message handler answers with a pong event.
Ping(c) ==
    /\ ws[c].state = "open"
    /\ env.others > 0
    /\ env' = [env EXCEPT !.others = @ - 1]
    /\ ws' = Sent(c, <<"pong">>)
    /\ UNCHANGED <<mysqlPool, sessions, session, timers, tasks, calls, ghost>>

\* A message that JSON.parse rejects: the message handler's catch sends an
\* error event.
BadMessage(c) ==
    /\ ws[c].state = "open"
    /\ env.others > 0
    /\ env' = [env EXCEPT !.others = @ - 1]
    /\ ws' = Sent(c, <<"error">>)
    /\ UNCHANGED <<mysqlPool, sessions, session, timers, tasks, calls, ghost>>

\* endSession deleting the session before it awaits logCallEnd.
DisconnectDeletesFirst(c) ==
    /\ ws[c].state = "open"
    /\ ws' = [ws EXCEPT ![c].state = "closed"]
    /\ c \in sessions
    /\ timers' = [timers EXCEPT ![c].silence = @ \ endSessionClears(session[c])]
    /\ sessions' = sessions \ {c}
    /\ LET s == session[c]
           steps == (IF s.elevenLabsConnection THEN <<"close-synthesis">> ELSE <<>>)
                    \o (IF s.silenceTimer # 0 THEN <<"clear-timer">> ELSE <<>>)
                    \o <<"log-call-end">>
       IN IF SkipsCallEnd(s, mysqlPool)
          THEN calls' = [calls EXCEPT ![c].endSession = "done",
                                      ![c].teardown = steps \o <<"delete">>]
          ELSE calls' = [calls EXCEPT ![c].endSession = "update",
                                      ![c].teardown = steps]
    /\ UNCHANGED <<mysqlPool, session, tasks, ghost, env>>

\* The socket's close event: endSession up to the await in logCallEnd, or to
\* the end when logCallEnd returns at once.
Disconnect(c) ==
    /\ ws[c].state = "open"
    /\ ws' = [ws EXCEPT ![c].state = "closed"]
    /\ c \in sessions
    /\ timers' = [timers EXCEPT ![c].silence = @ \ endSessionClears(session[c])]
    /\ LET s == session[c]
           steps == (IF s.elevenLabsConnection THEN <<"close-synthesis">> ELSE <<>>)
                    \o (IF s.silenceTimer # 0 THEN <<"clear-timer">> ELSE <<>>)
                    \o <<"log-call-end">>
       IN IF SkipsCallEnd(s, mysqlPool)
          THEN /\ sessions' = sessions \ {c}
               /\ calls' = [calls EXCEPT ![c].endSession = "done",
                                         ![c].teardown = steps \o <<"delete">>]
          ELSE /\ calls' = [calls EXCEPT ![c].endSession = "update",
                                         ![c].teardown = steps]
               /\ UNCHANGED sessions
    /\ UNCHANGED <<mysqlPool, session, tasks, ghost, env>>

\* logCallEnd after its UPDATE: a failure is logged and endSession deletes the
\* session; a success goes on to the charge.
EndUpdateDone(c, ok) ==
    /\ calls[c].endSession = "update"
    /\ IF ok
       THEN /\ calls' = [calls EXCEPT ![c].endSession = "charge",
                                      ![c].teardown = Append(@, "completed")]
            /\ UNCHANGED sessions
       ELSE /\ calls' = [calls EXCEPT ![c].endSession = "done",
                                      ![c].teardown = @ \o <<"update-failed", "delete">>]
            /\ sessions' = sessions \ {c}
    /\ UNCHANGED <<mysqlPool, session, ws, timers, tasks, ghost, env>>

\* logCallEnd after recordAndCharge, then endSession's delete.
EndChargeDone(c, ok) ==
    /\ calls[c].endSession = "charge"
    /\ calls' = [calls EXCEPT ![c].endSession = "done",
                              ![c].teardown = @ \o <<IF ok THEN "charged" ELSE "charge-failed",
                                                     "delete">>]
    /\ sessions' = sessions \ {c}
    /\ UNCHANGED <<mysqlPool, session, ws, timers, tasks, ghost, env>>

\* A call of createWavHeader: its argument and what it returned.
CreateWav(pcmData) ==
    /\ env.wavs > 0
    /\ env' = [env EXCEPT !.wavs = @ - 1]
    /\ tasks' = Append(tasks, [kind |-> "wav", pcmData |-> pcmData,
                               wav |-> createWavHeader(pcmData)])
    /\ UNCHANGED <<mysqlPool, sessions, session, ws, timers, calls, ghost>>

\* A run of processToolsDuringCall (phase "during") or processToolsAfterCall
\* (phase "after"): where it is (pc), whether the session has a conversation,
\* the tools still to process, and what it extracted and executed so far.
ToolRun(phase, context, queue) ==
    [kind |-> "tools", phase |-> phase, context |-> context,
     pc |-> IF queue = <<>> THEN "done" ELSE "extract",
     queue |-> queue, extractions |-> <<>>, executions |-> <<>>]

\* processToolsDuringCall or processToolsAfterCall up to the await of the
\* first extraction, or to its return when no tool is left by the filter.
ProcessTools(phase, context, tools) ==
    /\ env.toolRuns > 0
    /\ env' = [env EXCEPT !.toolRuns = @ - 1]
    /\ tasks' = Append(tasks, ToolRun(phase, context,
                                      IF phase = "during" THEN DuringCallTools(tools)
                                      ELSE AfterCallTools(tools)))
    /\ UNCHANGED <<mysqlPool, sessions, session, ws, timers, calls, ghost>>

\* The loop after extractDataFromConversation: a successful extraction goes
\* to the await of executeTool, any other to the next tool.
ExtractDone(t, reply) ==
    /\ t \in TaskIds
    /\ tasks[t].kind = "tools"
    /\ tasks[t].pc = "extract"
    /\ LET tool == Head(tasks[t].queue)
           extraction == extractDataFromConversation(tasks[t].context, tool, reply)
           rest == Tail(tasks[t].queue)
       IN tasks' = [tasks EXCEPT
              ![t].extractions = Append(@, [tool |-> tool, reply |-> reply,
                                            extraction |-> extraction]),
              ![t].pc = IF extraction.success THEN "execute"
                        ELSE IF rest = <<>> THEN "done" ELSE "extract",
              ![t].queue = IF extraction.success THEN @ ELSE rest]
    /\ UNCHANGED <<mysqlPool, sessions, session, ws, timers, calls, ghost, env>>

\* The loop after executeTool: on to the next tool.
ExecuteDone(t, outcome) ==
    /\ t \in TaskIds
    /\ tasks[t].kind = "tools"
    /\ tasks[t].pc = "execute"
    /\ outcome \in env.toolOutcomes
    /\ LET tool == Head(tasks[t].queue)
           data == tasks[t].extractions[Len(tasks[t].extractions)].extraction.data
           rest == Tail(tasks[t].queue)
       IN tasks' = [tasks EXCEPT
              ![t].executions = Append(@, [tool |-> tool, data |-> data,
                                           request |-> IF tool.type = "Webhook"
                                                       THEN <<WebhookRequest(tool, data)>>
                                                       ELSE <<>>,
                                           status |-> outcome,
                                           result |-> executeTool(tool, "object", outcome)]),
              ![t].pc = IF rest = <<>> THEN "done" ELSE "extract",
              ![t].queue = rest]
    /\ UNCHANGED <<mysqlPool, sessions, session, ws, timers, calls, ghost, env>>

DoCreateWav == \E pcmData \in PcmInputs : CreateWav(pcmData)
DoProcessTools ==
    \E phase \in {"during", "after"}, context \in BOOLEAN, tools \in LeadToolConfigs :
        ProcessTools(phase, context, tools)
DoExtractDone == \E t \in TaskIds, reply \in ExtractReplies : ExtractDone(t, reply)
DoExecuteDone == \E t \in TaskIds, outcome \in ToolOutcomes : ExecuteDone(t, outcome)
DoConnect ==
    \E c \in Conns, userId \in BOOLEAN, agentId \in BOOLEAN, voiceId \in VoiceIds :
        Connect(c, userId, agentId, voiceId)
DoAgentDone ==
    \E c \in Conns, tools \in ToolConfigs, agentVoiceId \in {NoVoice} \cup VoiceIds :
        AgentDone(c, tools, agentVoiceId)
DoBalanceDone ==
    \E c \in Conns, balance \in {"allowed", "refused", "error"} : BalanceDone(c, balance)
DoCloseUnheard == \E c \in Conns : CloseUnheard(c)
DoLogStartDone == \E c \in Conns, ok \in BOOLEAN : LogStartDone(c, ok)
DoGreetingFire == \E c \in Conns : GreetingFire(c)
DoAudio == \E c \in Conns, chunk \in Chunks : Audio(c, chunk)
DoSilenceTimerFire == \E c \in Conns : \E h \in timers[c].silence : SilenceTimerFire(c, h)
DoSttDone == \E t \in TaskIds, result \in SttResults : SttDone(t, result)
DoLlmDone ==
    \E t \in TaskIds, reply \in DialogReplies \cup ToolReplies, tokens \in Usages :
        LlmDone(t, reply, tokens)
DoToolDone == \E t \in TaskIds, outcome \in ToolOutcomes : ToolDone(t, outcome)
DoTtsDone == \E t \in TaskIds, outcome \in SynthOutcomes : TtsDone(t, outcome)
DoStopSpeaking == \E c \in Conns : StopSpeaking(c)
DoPing == \E c \in Conns : Ping(c)
DoBadMessage == \E c \in Conns : BadMessage(c)
DoDisconnect == \E c \in Conns : Disconnect(c)
DoEndUpdateDone == \E c \in Conns, ok \in BOOLEAN : EndUpdateDone(c, ok)
DoEndChargeDone == \E c \in Conns, ok \in BOOLEAN : EndChargeDone(c, ok)

\* The turn engine.
Next ==
    \/ DoConnect
    \/ DoGreetingFire
    \/ DoAudio
    \/ DoSilenceTimerFire
    \/ DoSttDone
    \/ DoLlmDone
    \/ DoTtsDone
    \/ DoStopSpeaking

Spec == Init /\ [][Next]_vars

\* Speech in and out.
NextSpeech ==
    \/ DoConnect
    \/ DoGreetingFire
    \/ DoAudio
    \/ DoSilenceTimerFire
    \/ DoSttDone
    \/ DoLlmDone
    \/ DoTtsDone

SpecSpeech == InitSpeech /\ [][NextSpeech]_vars

\* The segmenter.
NextAudio ==
    \/ DoConnect
    \/ DoGreetingFire
    \/ DoTtsDone
    \/ DoAudio
    \/ DoSilenceTimerFire
    \/ DoSttDone
    \/ DoPing
    \/ DoBadMessage

SpecAudio == InitAudio /\ [][NextAudio]_vars

\* Two sessions at once.
NextTwo ==
    \/ DoConnect
    \/ DoGreetingFire
    \/ DoAudio
    \/ DoSilenceTimerFire
    \/ DoSttDone
    \/ DoLlmDone
    \/ DoTtsDone
    \/ DoStopSpeaking
    \/ DoDisconnect

SpecTwo == InitTwo /\ [][NextTwo]_vars

\* Teardown and accounting.
NextTeardown ==
    \/ DoConnect
    \/ DoAgentDone
    \/ DoBalanceDone
    \/ DoCloseUnheard
    \/ DoLogStartDone
    \/ DoGreetingFire
    \/ DoAudio
    \/ DoSilenceTimerFire
    \/ DoSttDone
    \/ DoLlmDone
    \/ DoTtsDone
    \/ DoDisconnect
    \/ DoEndUpdateDone
    \/ DoEndChargeDone

SpecTeardown == InitTeardown /\ [][NextTeardown]_vars

\* One dialog turn with tools.
NextDialog ==
    \/ DoConnect
    \/ DoAgentDone
    \/ DoBalanceDone
    \/ DoLogStartDone
    \/ DoGreetingFire
    \/ DoAudio
    \/ DoSilenceTimerFire
    \/ DoSttDone
    \/ DoLlmDone
    \/ DoToolDone
    \/ DoTtsDone

SpecDialog == InitDialog /\ [][NextDialog]_vars

SpecLoop == InitLoop /\ [][NextDialog]_vars

SpecTools == InitTools /\ [][NextDialog]_vars

\* Turns of a session whose history is already long.
NextHistory ==
    \/ DoAudio
    \/ DoSilenceTimerFire
    \/ DoSttDone
    \/ DoLlmDone
    \/ DoToolDone
    \/ DoTtsDone

SpecHistory == InitHistory /\ [][NextHistory]_vars

\* The tool execution service on its own: its two processing loops, run over
\* tools of every method, with every kind of extraction reply.
InitToolRuns == InitWith([pool |-> TRUE, toolRuns |-> MaxToolRuns, toolOutcomes |-> {200, 500}])

NextToolRuns ==
    \/ DoProcessTools
    \/ DoExtractDone
    \/ DoExecuteDone

SpecToolRuns == InitToolRuns /\ [][NextToolRuns]_vars

\* The WAV container on its own: createWavHeader applied to one PCM input.
InitWav == InitWith([pool |-> FALSE, wavs |-> 1])

NextWav == DoCreateWav

SpecWav == InitWav /\ [][NextWav]_vars

\* =============================================================== claims
UtteranceTasks == {t \in TaskIds : tasks[t].kind = "utterance"}

\* The utterances that went on to the transcription.
Dispatched == {t \in UtteranceTasks : tasks[t].pc # "discarded"}

HasSpeech(chunks) == \E i \in 1..Len(chunks) : ~ReadThrows(chunks[i]) /\ IsSpeech(chunks[i])

StopAudioCount(c) == Count([i \in 1..Len(ws[c].sent) |-> ws[c].sent[i].event], "stop-audio")

Index(seq, x) == CHOOSE i \in 1..Len(seq) : seq[i] = x

Before(seq, x, y) == (Has(seq, x) /\ Has(seq, y)) => Index(seq, x) < Index(seq, y)

\* C1: on every session, at most one run of processUserInput is between
\* taking the gate and its finally at any time.
C1_AtMostOneTurnInFlight == \A c \in Conns : Cardinality(InFlightOf(c)) <= 1

\* C2: within one turn callLLM executes a tool and recurses at most 5 times.
C2_ToolLoopCapped == \A t \in TaskIds : Len(tasks[t].toolResults) <= 5

\* C3: the conversation history has at most 20 entries and is the last
\* entries ever appended, in the order they were appended.
C3_HistoryIsLastAppended ==
    \A c \in Conns :
        /\ Len(session[c].conversationHistory) <= HistoryLimit
        /\ session[c].conversationHistory = LastN(ghost[c].appended, HistoryLimit)

\* C3, witness: more than 20 turns were appended and the oldest were evicted.
C3_Evicted ==
    \E c \in Conns :
        /\ Len(ghost[c].appended) > HistoryLimit + 1
        /\ Len(session[c].conversationHistory) = HistoryLimit
        /\ session[c].conversationHistory[1] = ghost[c].appended[Len(ghost[c].appended) - HistoryLimit + 1]

\* C4: once an utterance boundary has fired for chunks that held speech, the
\* silent chunks that follow cause no further dispatch: every later utterance
\* of the session that is dispatched holds speech of its own.
C4_NoBoundaryFromLaterSilence ==
    \A t1, t2 \in Dispatched :
        (tasks[t1].conn = tasks[t2].conn /\ t1 < t2 /\ HasSpeech(tasks[t1].chunks))
            => HasSpeech(tasks[t2].chunks)

\* C5: a turn that was in flight when handleInterruption ran sends no
\* agent-response and no audio event afterwards.
C5_StaleTurnSendsNothing ==
    \A t \in TaskIds :
        /\ ~Has(tasks[t].sentStale, "agent-response")
        /\ ~Has(tasks[t].sentStale, "audio")

\* C6: the step that handles a stop-speaking event leaves isInterrupted true
\* and isProcessing false and has sent one stop-audio event for it; so every
\* step in which processUserInput takes an utterance finds a stop-audio event
\* sent for every stop-speaking event handled before.
C6_InterruptionStep ==
    \A c \in Conns :
        /\ ghost'[c].stops > ghost[c].stops =>
              /\ session'[c].isInterrupted
              /\ ~session'[c].isProcessing
              /\ StopAudioCount(c)' = ghost'[c].stops
        /\ (\E t \in TaskIds : /\ tasks[t].conn = c
                               /\ tasks[t].gate = "none"
                               /\ tasks'[t].gate = "accepted") =>
              /\ StopAudioCount(c) = ghost[c].stops
              /\ ghost[c].stops > 0 => session[c].isInterrupted

C6_InterruptionThenAccept == [][C6_InterruptionStep]_vars

\* C6, witness: a turn was interrupted in flight and a later utterance was
\* taken while it was still in flight.
C6_AcceptedAfterInterruption ==
    \E t1, t2 \in UtteranceTasks :
        /\ tasks[t1].conn = tasks[t2].conn
        /\ InFlight(t1) /\ tasks[t1].stale
        /\ InFlight(t2) /\ ~tasks[t2].stale
        /\ StopAudioCount(tasks[t1].conn) = 1

\* C7: an utterance for which processUserInput was called while isProcessing
\* was true is over: no generateContent call was made for it, nothing but its
\* transcript event was sent for it, and it never runs later.
C7_BusyInputDropped ==
    \A t \in TaskIds :
        tasks[t].input = "busy" =>
            /\ tasks[t].pc = "done"
            /\ tasks[t].llmCalls = 0
            /\ tasks[t].replies = <<>>
            /\ tasks[t].contents = <<>>
            /\ tasks[t].response = NoContent
            /\ EventsOf(t) = <<"transcript">>

\* C7, witness: an utterance was dropped, and the turn that was in flight then
\* has completed.
C7_DroppedAndTurnOver ==
    \E t1, t2 \in UtteranceTasks :
        /\ tasks[t1].conn = tasks[t2].conn
        /\ tasks[t1].input = "busy"
        /\ tasks[t2].gate = "accepted" /\ tasks[t2].pc = "done"
        /\ ~session[tasks[t1].conn].isProcessing

\* C8: once endSession has run, no silence timer of the session is pending
\* and the timer callback has not run since.
C8_NoTimerAfterTeardown ==
    \A c \in Conns :
        calls[c].endSession # "idle" =>
            /\ timers[c].silence = {}
            /\ ~timers[c].lateFired

\* C8, witness: endSession cancelled a pending silence timer.
C8_TimerCancelled ==
    \E c \in Conns :
        /\ calls[c].endSession = "done"
        /\ Has(calls[c].teardown, "clear-timer")
        /\ timers[c].armed > 0
        /\ session[c].audioBuffer # <<>>

\* C9: endSession closes the synthesis connection, clears the timer, runs
\* logCallEnd (the completion record, then the charge) and only then deletes
\* the session: the session is in the registry while logCallEnd is awaited,
\* and is deleted when it returns, whether or not the update or the charge
\* failed.
C9_TeardownOrder ==
    \A c \in Conns :
        LET log == calls[c].teardown
        IN /\ Before(log, "close-synthesis", "clear-timer")
           /\ Before(log, "close-synthesis", "log-call-end")
           /\ Before(log, "clear-timer", "log-call-end")
           /\ Before(log, "log-call-end", "delete")
           /\ \A a \in {"completed", "update-failed", "charged", "charge-failed"} :
                  /\ Before(log, "log-call-end", a)
                  /\ Before(log, a, "delete")
           /\ Before(log, "completed", "charged")
           /\ Before(log, "completed", "charge-failed")
           /\ calls[c].endSession \in {"update", "charge"} =>
                  (c \in sessions /\ ~Has(log, "delete") /\ Has(log, "log-call-end"))
           /\ calls[c].endSession = "done" =>
                  (c \notin sessions /\ log[Len(log)] = "delete" /\ Has(log, "log-call-end"))
           /\ calls[c].endSession = "idle" => log = <<>>

\* C9, witness: the charge failed and the session was deleted all the same.
C9_DeletedAfterFailedCharge ==
    \E c \in Conns :
        /\ calls[c].endSession = "done"
        /\ Has(calls[c].teardown, "charge-failed")
        /\ c \notin sessions

\* A reply that is a tool call naming a tool of the session.
NamesSessionTool(c, reply) ==
    /\ reply.kind = "tool-json"
    /\ \E i \in 1..Len(session[c].tools) : session[c].tools[i].name = reply.tool

\* C10: when the first reply of a turn is a tool call naming a tool of the
\* session, callLLM does not return it: it executes the tool and calls the
\* model again; and when that second reply is ordinary text, the tool was
\* executed once, the model was called twice and the second reply is what
\* callLLM returned.
C10_ToolCallThenText ==
    \A t \in TaskIds :
        (tasks[t].replies # <<>> /\ NamesSessionTool(tasks[t].conn, tasks[t].replies[1])) =>
            /\ tasks[t].response # ReplyText(tasks[t].replies[1], t)
            /\ tasks[t].pc \in {"tts", "done"} =>
                  (Len(tasks[t].replies) >= 2 /\ Len(tasks[t].toolResults) >= 1)
            /\ (Len(tasks[t].replies) >= 2 /\ tasks[t].replies[2] = PlainText) =>
                  /\ Len(tasks[t].toolResults) = 1
                  /\ tasks[t].llmCalls = 2
                  /\ tasks[t].replies = <<tasks[t].replies[1], PlainText>>
                  /\ tasks[t].response = ReplyText(PlainText, t)
                  /\ tasks[t].pc \in {"tts", "done"}

\* C10, witness: a turn whose replies were a tool call, then text, is over.
C10_ToolThenTextDone ==
    \E t \in TaskIds :
        /\ tasks[t].replies = <<ToolJson("sheet"), PlainText>>
        /\ tasks[t].pc = "done"
        /\ Len(tasks[t].toolResults) = 1

\* A reply that is a tool call naming no tool of the session.
NamesUnknownTool(c, reply) ==
    /\ reply.kind = "tool-json"
    /\ \A i \in 1..Len(session[c].tools) : session[c].tools[i].name # reply.tool

\* C11: a reply that is a tool call naming no tool of the session ends
\* callLLM: it is the last reply of the turn, no tool was executed for it, no
\* tool-status turn was appended for it, and its text is what was returned.
C11_UnknownToolFallsThrough ==
    \A t \in TaskIds :
        \A i \in 1..Len(tasks[t].replies) :
            NamesUnknownTool(tasks[t].conn, tasks[t].replies[i]) =>
                /\ i = Len(tasks[t].replies)
                /\ tasks[t].llmCalls = i
                /\ Len(tasks[t].toolResults) = i - 1
                /\ tasks[t].response = ReplyText(tasks[t].replies[i], t)
                /\ tasks[t].pc \in {"tts", "done"}
                /\ \A k \in 1..Len(ghost[tasks[t].conn].appended) :
                       LET content == ghost[tasks[t].conn].appended[k].content
                       IN ~(content.kind = "tool-status:success"
                            /\ content.tool = tasks[t].replies[i].tool)

\* C11, witness: a turn whose only reply named an unknown tool is over, and
\* the reply was sent as the agent's response.
C11_UnknownToolReturned ==
    \E t \in TaskIds :
        /\ tasks[t].replies = <<ToolJson("ghost")>>
        /\ tasks[t].pc = "done"
        /\ tasks[t].toolResults = <<>>
        /\ Has(EventsOf(t), "agent-response")

\* C12: no tool flagged to run after the call is executed while the call is
\* in progress.
C12_AfterCallToolNotInline ==
    \A t \in TaskIds :
        tasks[t].pc = "tool" =>
            \A i \in 1..Len(session[tasks[t].conn].tools) :
                session[tasks[t].conn].tools[i].name = tasks[t].tool
                    => ~session[tasks[t].conn].tools[i].runAfterCall

\* C20: every execution of executeTool returned true or false; for a webhook
\* tool it returned true exactly when the tool has a URL and the endpoint
\* answered with a status from 200 to 299; for a tool of an unrecognized type
\* it returned false.
C20_ExecuteToolResult ==
    \A t \in TaskIds :
        \A i \in 1..Len(tasks[t].toolResults) :
            LET r == tasks[t].toolResults[i]
            IN /\ r.result \in {"true", "false"}
               /\ r.tool.type = "Webhook" =>
                      (r.result = "true" <=>
                          (r.tool.webhookUrl /\ r.status >= 200 /\ r.status <= 299))
               /\ r.tool.type \notin {"GoogleSheets", "Webhook"} => r.result = "false"

\* C20, witness: a webhook tool was executed against an endpoint that
\* answered 500, and the turn went on.
C20_WebhookFailed ==
    \E t \in TaskIds :
        /\ tasks[t].pc = "done"
        /\ \E i \in 1..Len(tasks[t].toolResults) :
               /\ tasks[t].toolResults[i].tool = HookTool
               /\ tasks[t].toolResults[i].status = 500
               /\ tasks[t].toolResults[i].result = "false"

\* A reply that is a tool call naming a tool of the session that runs
\* during the call.
NamesInlineTool(c, reply) ==
    /\ reply.kind = "tool-json"
    /\ \E i \in 1..Len(session[c].tools) :
           session[c].tools[i].name = reply.tool /\ ~session[c].tools[i].runAfterCall

\* The turns whose first reply is a tool call for an inline tool.
InlineToolTurns ==
    {t \in TaskIds : tasks[t].replies # <<>>
                     /\ NamesInlineTool(tasks[t].conn, tasks[t].replies[1])}

\* C13, as stated: the agent-response of the turn is sent before the inline
\* tool is executed.
C13_ResponseBeforeTool ==
    \A t \in InlineToolTurns :
        tasks[t].pc = "tool" => Has(EventsOf(t), "agent-response")

\* C13, amended: in a turn whose first reply is a tool call for an inline
\* tool, the transcript event is the only event sent until the tool has been
\* executed; at most one agent-response is sent, after the execution; and
\* when the follow-up reply is ordinary text the turn's events start with one
\* transcript and one agent-response carrying that text, the tool having been
\* executed once.
C13_ToolThenResponse ==
    \A t \in InlineToolTurns :
        /\ EventsOf(t)[1] = "transcript"
        /\ Count(EventsOf(t), "transcript") = 1
        /\ Count(EventsOf(t), "agent-response") <= 1
        /\ tasks[t].pc \in {"tool", "llm"} => EventsOf(t) = <<"transcript">>
        /\ Has(EventsOf(t), "agent-response") => Len(tasks[t].toolResults) >= 1
        /\ (Len(tasks[t].replies) >= 2 /\ tasks[t].replies[2] = PlainText) =>
              /\ Len(tasks[t].toolResults) = 1
              /\ SubSeq(EventsOf(t), 1, 2) = <<"transcript", "agent-response">>
              /\ tasks[t].response = ReplyText(PlainText, t)

\* C13, witness: such a turn is over: the tool succeeded, then the response
\* and its audio were sent.
C13_ToolTurnDone ==
    \E t \in InlineToolTurns :
        /\ tasks[t].replies = <<ToolJson("sheet"), PlainText>>
        /\ tasks[t].toolResults[1].result = "true"
        /\ EventsOf(t) = <<"transcript", "agent-response", "audio">>
        /\ tasks[t].pc = "done"

\* C14: every turn that called the language model and is over has sent an
\* agent-response event.
C14_EveryTurnAnswers ==
    \A t \in TaskIds :
        (tasks[t].llmCalls >= 1 /\ tasks[t].pc = "done")
            => Has(EventsOf(t), "agent-response")

\* C15: a connection whose balance pre-check reported not allowed was sent
\* one error event and nothing else, and is closed; it has no session in the
\* registry, no greeting timer, no call-start log and no handler that ran.
C15_RefusedConnection ==
    \A c \in Conns :
        calls[c].balance = "refused" =>
            /\ ws[c].state = "closed"
            /\ Len(ws[c].sent) = 1 /\ ws[c].sent[1].event = "error"
            /\ c \notin sessions
            /\ session[c] = NoSession
            /\ timers[c] = NoTimers
            /\ calls[c].logCallStart = "none"
            /\ calls[c].endSession = "idle"
            /\ \A t \in TaskIds : tasks[t].conn # c

\* C15, witness: a connection was refused while its socket was open.
C15_Refused ==
    \E c \in Conns :
        /\ calls[c].balance = "refused"
        /\ calls[c].connect = "done"
        /\ ws[c] = [state |-> "closed", sent |-> <<[event |-> "error", open |-> TRUE]>>]

\* Whether the user turn of task t was ever appended to the history.
TranscriptAppended(t) ==
    Has(ghost[tasks[t].conn].appended, Turn("user", Transcript(t)))

\* C16: an utterance whose transcription threw is over: one error event was
\* sent for it and nothing else, no user turn was appended for it, it never
\* reached processUserInput or the language model, and its session is still
\* in the registry.
C16_TranscriptionFailure ==
    \A t \in TaskIds :
        tasks[t].stt = "throw" =>
            /\ tasks[t].pc = "done"
            /\ EventsOf(t) = <<"error">>
            /\ ~TranscriptAppended(t)
            /\ tasks[t].input = "none" /\ tasks[t].gate = "none"
            /\ tasks[t].llmCalls = 0 /\ tasks[t].replies = <<>>
            /\ tasks[t].conn \in sessions
            /\ ws[tasks[t].conn].state = "open"

\* C16, witness: after an utterance whose transcription threw, a later
\* utterance of the session was transcribed and taken.
C16_AcceptedAfterFailure ==
    \E t1, t2 \in UtteranceTasks :
        /\ tasks[t1].conn = tasks[t2].conn
        /\ t1 < t2
        /\ tasks[t1].stt = "throw" /\ tasks[t1].pc = "done"
        /\ tasks[t2].gate = "accepted"

\* C17: a synthesis that the provider answered without audio, with a failure
\* status or not at all sent an error event and no audio event.
C17_ProviderFailureIsError ==
    \A t \in TaskIds :
        tasks[t].synth \in {"no-audio", "status", "reject"} =>
            /\ Has(EventsOf(t), "error")
            /\ ~Has(EventsOf(t), "audio")

\* C18, the step: the run of processBufferedAudio that takes the buffer
\* leaves the buffer empty and the timer field cleared and sends nothing.
C18_BoundaryStep ==
    Len(tasks') > Len(tasks) =>
        LET t == Len(tasks')
        IN tasks'[t].kind = "utterance" =>
              /\ session'[tasks'[t].conn].audioBuffer = <<>>
              /\ session'[tasks'[t].conn].silenceTimer = 0
              /\ tasks'[t].sent = <<>>
              /\ ws' = ws

\* C18: an utterance whose chunks add up to fewer than 3200 bytes is
\* discarded at timer expiry: it never reaches the transcription, no event
\* is sent for it, and the step that takes it leaves the buffer empty and the
\* timer field cleared.
C18_ShortUtteranceDiscarded ==
    /\ [](\A t \in UtteranceTasks :
             ConcatLength(tasks[t].chunks) < MinUtteranceBytes =>
                 /\ tasks[t].pc = "discarded"
                 /\ tasks[t].stt = "none"
                 /\ tasks[t].sent = <<>>
                 /\ tasks[t].llmCalls = 0)
    /\ [][C18_BoundaryStep]_vars

\* C18, witness: a buffer of some bytes, fewer than 3200, was discarded.
C18_Discarded ==
    \E t \in UtteranceTasks :
        /\ tasks[t].pc = "discarded"
        /\ ConcatLength(tasks[t].chunks) > 0
        /\ ConcatLength(tasks[t].chunks) < MinUtteranceBytes
        /\ session[tasks[t].conn].audioBuffer = <<>>

\* The transcription results with nothing said.
NothingSaid == {"null", "empty", "blank"}

\* C19, the step: the continuation that finds nothing said changes no
\* session (history, isProcessing) and sends nothing.
C19_BlankStep ==
    \A t \in TaskIds :
        (tasks[t].stt = "none" /\ tasks'[t].stt \in NothingSaid) =>
            /\ session' = session
            /\ ghost' = ghost
            /\ ws' = ws
            /\ tasks'[t].sent = tasks[t].sent

\* C19: an utterance whose transcription is undefined, empty or white space
\* only is over without a turn: no transcript event was sent for it, no user
\* turn appended, processUserInput was not called and no generateContent call
\* made; and the step that finds it so leaves the history and isProcessing as
\* they were.
C19_NothingSaidNoTurn ==
    /\ [](\A t \in TaskIds :
             tasks[t].stt \in NothingSaid =>
                 /\ tasks[t].pc = "done"
                 /\ tasks[t].sent = <<>>
                 /\ ~TranscriptAppended(t)
                 /\ tasks[t].input = "none" /\ tasks[t].gate = "none"
                 /\ tasks[t].llmCalls = 0 /\ tasks[t].replies = <<>>)
    /\ [][C19_BlankStep]_vars

\* C19, witness: a transcription of white space only ended its utterance
\* while no turn was in flight, and the history holds the greeting alone.
C19_BlankDropped ==
    \E t \in UtteranceTasks :
        /\ tasks[t].stt = "blank"
        /\ tasks[t].pc = "done"
        /\ ~session[tasks[t].conn].isProcessing
        /\ session[tasks[t].conn].conversationHistory = <<Turn("assistant", Greeting)>>


\* The runs of the tool processing loops.
ToolRuns == {t \in TaskIds : tasks[t].kind = "tools"}

\* The required parameters of a tool that have no non-null value in `data`.
LackingNonNull(tool, data) ==
    NamesOf(SelectSeq(tool.parameters,
                      LAMBDA p: p.required /\ data[p.name] \in {"undefined", "null"}))

\* The extractions of a run that reported success.
Successes(t) == {i \in 1..Len(tasks[t].extractions) : tasks[t].extractions[i].extraction.success}

\* C21: an extraction reports success only if every required parameter has a
\* non-null value; when it reports missing fields, they are exactly the
\* required parameters without a non-null value; the loops execute a tool only
\* after a successful extraction for it; and a reply without JSON, or with
\* JSON that does not parse, gives an empty data object and no error.
C21_ExtractionContract ==
    \A t \in ToolRuns :
        /\ Len(tasks[t].executions) + (IF tasks[t].pc = "execute" THEN 1 ELSE 0)
               = Cardinality(Successes(t))
        /\ \A i \in 1..Len(tasks[t].extractions) :
               LET x == tasks[t].extractions[i]
                   r == x.extraction
               IN /\ r.success => LackingNonNull(x.tool, r.data) = <<>>
                  /\ (~r.success /\ "missingFields" \in r.keys) =>
                         r.missingFields = LackingNonNull(x.tool, r.data)
                  /\ (tasks[t].context /\ x.reply.kind \in {"no-json", "bad-json"}) =>
                         (r.data = EmptyObject /\ "error" \notin r.keys)


\* C27: every request of executeWebhookTool carries the JSON-encoded data as
\* its body unless its method is GET (POST when the tool names none), and no
\* body for GET.
C27_BodyUnlessGet ==
    \A t \in ToolRuns :
        \A i \in 1..Len(tasks[t].executions) :
            LET x == tasks[t].executions[i]
            IN x.request # <<>> =>
                   /\ x.request[1].method = (IF x.tool.method = "" THEN "POST" ELSE x.tool.method)
                   /\ x.request[1].method # "GET" => x.request[1].body = <<"json", x.data>>
                   /\ x.request[1].method = "GET" => x.request[1].body = <<>>


\* The calls of createWavHeader.
WavCalls == {t \in TaskIds : tasks[t].kind = "wav"}

\* The value of four bytes read as a little-endian unsigned integer.
ReadUInt32LE(buffer, offset) ==
    buffer[offset + 1] + 256 * buffer[offset + 2] + 65536 * buffer[offset + 3]
        + 16777216 * buffer[offset + 4]

\* C22: for a PCM input of N bytes createWavHeader returns 44+N bytes that
\* start with RIFF, have WAVE at offset 8, the little-endian 36+N at offset 4
\* and N at offset 40, and the input unchanged from offset 44.
C22_WavContainer ==
    \A t \in WavCalls :
        LET pcm == tasks[t].pcmData
            N == Len(pcm)
            out == tasks[t].wav.buffer
        IN /\ ~tasks[t].wav.threw
           /\ Len(out) = 44 + N
           /\ \A i \in 1..Len(out) : out[i] \in 0..255
           /\ SubSeq(out, 1, 4) = <<82, 73, 70, 70>>
           /\ SubSeq(out, 9, 12) = <<87, 65, 86, 69>>
           /\ ReadUInt32LE(out, 4) = 36 + N
           /\ ReadUInt32LE(out, 40) = N
           /\ SubSeq(out, 45, 44 + N) = pcm

\* C22, witness: an utterance of 3200 bytes was wrapped; its length needs two
\* bytes to write.
C22_Wrapped3200 ==
    \E t \in WavCalls :
        /\ Len(tasks[t].pcmData) = 3200
        /\ Len(tasks[t].wav.buffer) = 3244
        /\ tasks[t].wav.buffer[41] = 128 /\ tasks[t].wav.buffer[42] = 12


\* "Tool executed successfully. Please continue."
Continue(t) == Content("continue", "", t)

\* The userInput argument of the callLLM invocation a task is in: the
\* transcript for the first, the fixed sentence for a recursive one.
UserInput(t) == IF tasks[t].llmCalls = 1 THEN Transcript(t) ELSE Continue(t)

\* C23: the request of every generateContent call ends with the user turn
\* holding the userInput argument of the callLLM invocation that makes it.
C23_UtteranceInRequest ==
    \A t \in TaskIds :
        (tasks[t].kind = "utterance" /\ tasks[t].pc = "llm") =>
            /\ tasks[t].contents # <<>>
            /\ tasks[t].contents[Len(tasks[t].contents)] = Turn("user", UserInput(t))


\* The tool-status turns appended for a task, in order.
StatusTurns(t) ==
    SelectSeq(ghost[tasks[t].conn].appended,
              LAMBDA turn: /\ turn.role = "user"
                           /\ turn.content.ref = t
                           /\ turn.content.kind \in {"tool-status:success",
                                                     "tool-status:failure"})

\* C24: one tool-status turn is appended for every execution of a tool, and
\* it says success only when that execution of executeTool returned true.
C24_StatusIsOutcome ==
    \A t \in TaskIds :
        tasks[t].kind = "utterance" =>
            /\ Len(StatusTurns(t)) = Len(tasks[t].toolResults)
            /\ \A i \in 1..Len(tasks[t].toolResults) :
                   /\ StatusTurns(t)[i].content.tool = tasks[t].toolResults[i].tool.name
                   /\ StatusTurns(t)[i].content.kind = "tool-status:success"
                          => tasks[t].toolResults[i].result = "true"


\* The samples a chunk holds are above the silence threshold.
SpeechBearing(chunk) == IsSpeech(chunk)

\* C25, the step: an audio message that arms a timer found none pending, is
\* not speech and leaves the buffer non-empty; one that bears speech leaves
\* no timer pending and the timer field cleared.
C25_AudioStep ==
    \A c \in Conns :
        Len(session'[c].audioBuffer) = Len(session[c].audioBuffer) + 1 =>
            LET chunk == session'[c].audioBuffer[Len(session'[c].audioBuffer)]
            IN /\ timers'[c].silence \ timers[c].silence # {} =>
                      /\ timers[c].silence = {}
                      /\ ~SpeechBearing(chunk)
                      /\ session'[c].audioBuffer # <<>>
               /\ SpeechBearing(chunk) =>
                      /\ timers'[c].silence = {}
                      /\ session'[c].silenceTimer = 0

\* C25: a session has at most one pending silence timer at any time, and
\* every audio message arms and cancels as the step says.
C25_TimerIdempotent ==
    /\ [](\A c \in Conns : Cardinality(timers[c].silence) <= 1)
    /\ [][C25_AudioStep]_vars


\* A step is an operation on connection c: it changes the connection's
\* session, timers, socket, accounting or one of its tasks.
Touched(c) ==
    \/ session'[c] # session[c]
    \/ timers'[c] # timers[c]
    \/ ws'[c] # ws[c]
    \/ calls'[c] # calls[c]
    \/ ghost'[c] # ghost[c]
    \/ \E t \in DOMAIN tasks' :
           /\ tasks'[t].conn = c
           /\ (t \in DOMAIN tasks => tasks'[t] # tasks[t])

\* C26, the step: an operation on one connection leaves every other
\* connection's session object (audio buffer, timer field, flags, history,
\* token counters) and pending timers as they were.
C26_FrameStep ==
    \A c, d \in Conns :
        (c # d /\ Touched(c)) =>
            /\ session'[d] = session[d]
            /\ timers'[d] = timers[d]

C26_SessionsIndependent == [][C26_FrameStep]_vars

\* C26, witness: one session has had a turn, counted its tokens and was torn
\* down, while another, greeted and interrupted, is still in the registry.
C26_OneEndedOneInterrupted ==
    \E c, d \in Conns :
        /\ c # d
        /\ c \notin sessions /\ calls[c].endSession = "done"
        /\ session[c].totalInputTokens > 0
        /\ d \in sessions
        /\ session[d].isInterrupted
        /\ session[d].conversationHistory # <<>>


\* C28: an utterance for which processUserInput found isProcessing set has
\* had its transcript event sent and its user turn appended to the history,
\* and no generateContent call was made for it.
C28_DroppedUtteranceInHistory ==
    \A t \in TaskIds :
        (tasks[t].kind = "utterance" /\ tasks[t].input = "busy") =>
            /\ tasks[t].gate = "dropped"
            /\ EventsOf(t) = <<"transcript">>
            /\ TranscriptAppended(t)
            /\ Has(session[tasks[t].conn].conversationHistory, Turn("user", Transcript(t)))
            /\ tasks[t].llmCalls = 0
            /\ tasks[t].contents = <<>>

\* C28, witness: the history holds the user turn of a dropped utterance, and
\* the turn that was in flight has been answered without it.
C28_TurnWithoutCall ==
    \E t1, t2 \in UtteranceTasks :
        /\ tasks[t1].conn = tasks[t2].conn
        /\ tasks[t2].input = "busy" /\ tasks[t2].llmCalls = 0
        /\ tasks[t1].gate = "accepted" /\ tasks[t1].pc = "done"
        /\ ~Has(tasks[t1].contents, Turn("user", Transcript(t2)))
        /\ Has(session[tasks[t2].conn].conversationHistory, Turn("user", Transcript(t2)))


\* C29, the step: callLogId is written only on a session of the registry.
C29_LogIdStep ==
    \A c \in Conns : session'[c].callLogId # session[c].callLogId => c \in sessions

\* C29: a session whose call-start logging succeeded and whose endSession is
\* over has had logCallEnd record its completion (or fail trying) and, when
\* recorded, charge it once (or fail trying); and callLogId is never written
\* on a session that has left the registry.
C29_LoggedCallIsClosed ==
    /\ [](\A c \in Conns :
             (calls[c].logCallStart = "ok" /\ calls[c].endSession = "done") =>
                 /\ Has(calls[c].teardown, "completed") \/ Has(calls[c].teardown, "update-failed")
                 /\ Has(calls[c].teardown, "completed") =>
                        Count(calls[c].teardown, "charged")
                            + Count(calls[c].teardown, "charge-failed") = 1)
    /\ [][C29_LogIdStep]_vars


\* C30, the step: once endSession has deleted a session, no step appends to
\* its history or hands an event to its socket.
C30_AfterTeardownStep ==
    \A c \in Conns :
        (c \notin sessions /\ calls[c].endSession = "done") =>
            /\ session'[c].conversationHistory = session[c].conversationHistory
            /\ ws'[c].sent = ws[c].sent
            /\ \A t \in DOMAIN tasks' :
                   tasks'[t].conn = c =>
                       tasks'[t].sent = (IF t \in DOMAIN tasks THEN tasks[t].sent ELSE <<>>)

C30_NothingAfterTeardown == [][C30_AfterTeardownStep]_vars


\* The place of a task's user turn among the turns appended to its session.
TranscriptIndex(t) == Index(ghost[tasks[t].conn].appended, Turn("user", Transcript(t)))

\* C31: the transcript events and user turns of a session appear in the
\* order of the utterance boundaries that produced them: of two utterances of
\* a session whose user turns were appended, the one taken first was appended
\* first.
C31_TranscriptsInBoundaryOrder ==
    \A t1, t2 \in UtteranceTasks :
        (/\ tasks[t1].conn = tasks[t2].conn
         /\ t1 < t2
         /\ TranscriptAppended(t1)
         /\ TranscriptAppended(t2)) => TranscriptIndex(t1) < TranscriptIndex(t2)

\* C32, the step: no step resets isInterrupted.
C32_InterruptedStep ==
    \A c \in Conns : session[c].isInterrupted => session'[c].isInterrupted

\* C32: once handleInterruption has set isInterrupted it stays set, whatever
\* utterances, turns and interruptions follow.
C32_InterruptedIsMonotone == [][C32_InterruptedStep]_vars

\* C32, witness: an utterance taken after the interruption has had its whole
\* turn, and isInterrupted is still set.
C32_TurnAfterInterruption ==
    \E t1, t2 \in UtteranceTasks :
        /\ tasks[t1].conn = tasks[t2].conn
        /\ t1 < t2
        /\ tasks[t1].stale
        /\ tasks[t2].gate = "accepted" /\ ~tasks[t2].stale /\ tasks[t2].pc = "done"
        /\ tasks[t2].synth = "ok"
        /\ session[tasks[t2].conn].isInterrupted
        /\ ghost[tasks[t2].conn].stops >= 1

====
